---------------------------- MODULE Spec2Model ----------------------------
(***************************************************************************)
(* A model of the tsconfig crate (src/src/lib.rs): parse_str and the serde *)
(* schema it decodes into.                                                 *)
(*                                                                         *)
(* A document is a TLA+ string; a character is a string of length one.     *)
(* parse_str is three steps, one action each: the trailing-comma regex     *)
(* (lib.rs 10-11), json_comments::StripComments (lib.rs 12) and            *)
(* serde_json::from_reader driven by the derived and hand-written          *)
(* Deserialize impls (lib.rs 13, 17-641).                                  *)
(***************************************************************************)
EXTENDS Naturals, Sequences, FiniteSets, TLC

VARIABLES doc, input, json, stripped, result, pc

vars == <<doc, input, json, stripped, result, pc>>

(***************************************************************************)
(* Characters                                                              *)
(***************************************************************************)
Ch(t, i) == SubSeq(t, i, i)

\* The ASCII members of the regex crate's \s class that a string literal can hold.
RegexSpace == {" ", "\t", "\n", "\f", "\r"}

\* The whitespace serde_json skips between tokens.
JsonSpace == {" ", "\t", "\n", "\r"}

LowerLetters == "abcdefghijklmnopqrstuvwxyz"

UpperLetters == "ABCDEFGHIJKLMNOPQRSTUVWXYZ"

Digits == {"0", "1", "2", "3", "4", "5", "6", "7", "8", "9"}

IndexIn(c, alphabet) ==
    IF \E k \in 1..Len(alphabet) : Ch(alphabet, k) = c
    THEN CHOOSE k \in 1..Len(alphabet) : Ch(alphabet, k) = c
    ELSE 0

\* char::to_uppercase / to_ascii_uppercase on the characters the documents hold.
UpperChar(c) ==
    IF IndexIn(c, LowerLetters) > 0
    THEN Ch(UpperLetters, IndexIn(c, LowerLetters)) ELSE c

LowerChar(c) ==
    IF IndexIn(c, UpperLetters) > 0
    THEN Ch(LowerLetters, IndexIn(c, UpperLetters)) ELSE c

RECURSIVE MapChars(_, _, _)
MapChars(s, i, upper) ==
    IF i > Len(s) THEN ""
    ELSE (IF upper THEN UpperChar(Ch(s, i)) ELSE LowerChar(Ch(s, i)))
         \o MapChars(s, i + 1, upper)

\* str::to_uppercase (lib.rs 468, 544, 619).
to_uppercase(s) == MapChars(s, 1, TRUE)

(***************************************************************************)
(* lib.rs 10-11: Regex::new(r",(?P<valid>\s*})") and                        *)
(* re.replace_all(json, "$valid").                                         *)
(***************************************************************************)
RECURSIVE SkipRegexSpace(_, _)
SkipRegexSpace(t, j) ==
    IF j <= Len(t) /\ Ch(t, j) \in RegexSpace THEN SkipRegexSpace(t, j + 1) ELSE j

\* The same for the pattern ,\s*[}\]], which matches before either bracket.
TrailingCommaMatchAnyBracket(t, i) ==
    IF i <= Len(t) /\ Ch(t, i) = ","
    THEN LET k == SkipRegexSpace(t, i + 1)
         IN  IF k <= Len(t) /\ Ch(t, k) \in {"}", "]"} THEN k ELSE 0
    ELSE 0

\* The end of a match of ,\s*} that starts at the comma at i, or 0.
TrailingCommaMatch(t, i) ==
    IF i <= Len(t) /\ Ch(t, i) = ","
    THEN LET k == SkipRegexSpace(t, i + 1)
         IN  IF k <= Len(t) /\ Ch(t, k) = "}" THEN k ELSE 0
    ELSE 0

\* Leftmost non-overlapping matches over positions lo..hi, each replaced by its
\* group "valid": the comma of a match is dropped and the search resumes after the
\* match's '}' (`resume`).  The range is halved so that the evaluation stays shallow;
\* the positions are still visited left to right.
RECURSIVE ReplaceRange(_, _, _, _)
ReplaceRange(t, lo, hi, resume) ==
    IF lo > hi THEN [out |-> "", resume |-> resume]
    ELSE IF lo = hi
    THEN LET e == IF lo >= resume THEN TrailingCommaMatch(t, lo) ELSE 0
         IN  IF e > 0 THEN [out |-> "", resume |-> e + 1]
             ELSE [out |-> Ch(t, lo), resume |-> resume]
    ELSE LET mid == (lo + hi) \div 2
             left == ReplaceRange(t, lo, mid, resume)
             right == ReplaceRange(t, mid + 1, hi, left.resume)
         IN  [out |-> left.out \o right.out, resume |-> right.resume]

replace_all(t) == ReplaceRange(t, 1, Len(t), 1).out

(***************************************************************************)
(* lib.rs 12: json_comments::StripComments over the text.  The reader      *)
(* blanks comment bytes to spaces, keeps the newline that ends a line      *)
(* comment, and fails with InvalidData on a lone '/' or when the text ends *)
(* inside a string or a block comment.  serde_json reads it byte by byte,  *)
(* so the bytes before a failure are delivered: the stripped text is the   *)
(* delivered prefix and `err` says that the read after it fails.           *)
(***************************************************************************)
StripStep(state, c) ==
    CASE state = "Top" ->
           IF c = "\"" THEN <<"InString", c>>
           ELSE IF c = "/" THEN <<"InComment", " ">>
           ELSE IF c = "#" THEN <<"InLineComment", " ">>
           ELSE <<"Top", c>>
      [] state = "InString" ->
           IF c = "\"" THEN <<"Top", c>>
           ELSE IF c = "\\" THEN <<"StringEscape", c>>
           ELSE <<"InString", c>>
      [] state = "StringEscape" -> <<"InString", c>>
      [] state = "InComment" ->
           IF c = "*" THEN <<"InBlockComment", " ">>
           ELSE IF c = "/" THEN <<"InLineComment", " ">>
           ELSE <<"Invalid", "">>
      [] state = "InBlockComment" ->
           IF c = "*" THEN <<"MaybeCommentEnd", " ">> ELSE <<"InBlockComment", " ">>
      [] state = "MaybeCommentEnd" ->
           IF c = "/" THEN <<"Top", " ">>
           ELSE IF c = "*" THEN <<"MaybeCommentEnd", " ">>
           ELSE <<"InBlockComment", " ">>
      [] state = "InLineComment" ->
           IF c = "\n" THEN <<"Top", c>> ELSE <<"InLineComment", " ">>

\* The bytes lo..hi from `state`, left to right (the range is halved so that the
\* evaluation stays shallow); nothing is delivered after a failure.
RECURSIVE StripRange(_, _, _, _)
StripRange(t, lo, hi, state) ==
    IF lo > hi \/ state = "Invalid" THEN [state |-> state, out |-> ""]
    ELSE IF lo = hi
    THEN [state |-> StripStep(state, Ch(t, lo))[1], out |-> StripStep(state, Ch(t, lo))[2]]
    ELSE LET mid == (lo + hi) \div 2
             left == StripRange(t, lo, mid, state)
             right == StripRange(t, mid + 1, hi, left.state)
         IN  [state |-> right.state, out |-> left.out \o right.out]

StripComments(t) ==
    LET s == StripRange(t, 1, Len(t), "Top")
    IN  [text |-> s.out, err |-> s.state \notin {"Top", "InLineComment"}]

(***************************************************************************)
(* lib.rs 13: serde_json::from_reader.  A reader is the stripped text and  *)
(* its failure flag; a position is a 1-based index into the text.          *)
(* A step of the decoder returns [ok, v, i] (value and next position) or   *)
(* [ok, e] (the error that ends the parse).                                *)
(***************************************************************************)
EOF == ""

IoFail == "InvalidData"

Peek(rd, i) ==
    IF i <= Len(rd.text) THEN Ch(rd.text, i)
    ELSE IF rd.err THEN IoFail ELSE EOF

\* `let v = ..; f(v)`: the value is computed once and named in what follows.
Bind(v, F(_)) == F(v)

\* The `?` of Rust: an error ends the function, a value goes on to what follows.
Then(x, F(_)) == IF x.ok THEN F(x) ELSE x

Ok(v, i) == [ok |-> TRUE, v |-> v, i |-> i]

Error(kind, unexpected, expected) ==
    [ok |-> FALSE, e |-> [kind |-> kind, unexpected |-> unexpected, expected |-> expected]]

\* A syntax error at i, or the reader's own failure when that is what i holds.
SyntaxError(rd, i) ==
    IF Peek(rd, i) = IoFail THEN Error("io", "", "") ELSE Error("syntax", "", "")

\* de::Error::invalid_type
InvalidType(expected) == Error("invalid_type", "", expected)

RECURSIVE SkipWs(_, _)
SkipWs(rd, i) ==
    IF Peek(rd, i) \in JsonSpace THEN SkipWs(rd, i + 1) ELSE i

\* parse_ident: the rest of null, true or false after its first letter.
ParseIdent(rd, i, word, v) ==
    IF i + Len(word) - 1 <= Len(rd.text) /\ SubSeq(rd.text, i, i + Len(word) - 1) = word
    THEN Ok(v, i + Len(word))
    ELSE IF rd.err /\ i + Len(word) - 1 > Len(rd.text)
              /\ SubSeq(rd.text, i, Len(rd.text)) = SubSeq(word, 1, Len(rd.text) - i + 1)
         THEN Error("io", "", "")
         ELSE Error("syntax", "", "")

\* The escapes the documents use: \" \\ \/ \n \t \r \f (no \b, no \uXXXX).
Unescape(c) ==
    CASE c = "n" -> "\n" [] c = "t" -> "\t" [] c = "r" -> "\r" [] c = "f" -> "\f"
      [] c \in {"\"", "\\", "/"} -> c
      [] OTHER -> EOF

\* One character of a string literal.  st.mode is "chars", "escape" (after a
\* backslash), "closed" (st.i is the position after the closing quote) or "error"
\* (st.i is where the literal is malformed or the text ends).
StrChar(c, i, st) ==
    IF st.mode = "escape"
    THEN IF c \in {EOF, IoFail} \/ Unescape(c) = EOF
         THEN [mode |-> "error", acc |-> st.acc, i |-> i]
         ELSE [mode |-> "chars", acc |-> st.acc \o Unescape(c), i |-> i]
    ELSE IF c = "\"" THEN [mode |-> "closed", acc |-> st.acc, i |-> i + 1]
    ELSE IF c = "\\" THEN [mode |-> "escape", acc |-> st.acc, i |-> i]
    ELSE IF c \in {EOF, IoFail, "\n", "\t", "\r", "\f"}
         THEN [mode |-> "error", acc |-> st.acc, i |-> i]
    ELSE [mode |-> "chars", acc |-> st.acc \o c, i |-> i]

StrStep(rd, i, st) == StrChar(Peek(rd, i), i, st)

\* The characters lo..hi of a literal, left to right, until it closes or fails (the
\* range is halved so that the evaluation stays shallow).
RECURSIVE StrRange(_, _, _, _)
StrRange(rd, lo, hi, st) ==
    IF lo > hi \/ st.mode \in {"closed", "error"} THEN st
    ELSE IF lo = hi THEN StrStep(rd, lo, st)
    ELSE StrRange(rd, (lo + hi) \div 2 + 1, hi, StrRange(rd, lo, (lo + hi) \div 2, st))

\* parse_str: i is the position after the opening quote; the position one past the
\* text is read too, where the reader reports its end or its failure.
ParseStrFrom(rd, i, acc) ==
    Bind(StrRange(rd, i, Len(rd.text) + 1, [mode |-> "chars", acc |-> acc, i |-> i]),
         LAMBDA st : IF st.mode = "closed" THEN Ok(st.acc, st.i) ELSE SyntaxError(rd, st.i))

RECURSIVE SkipDigits(_, _)
SkipDigits(rd, i) == IF Peek(rd, i) \in Digits THEN SkipDigits(rd, i + 1) ELSE i

\* The literal whose integer digits are d0..d1-1, whose fraction ends before f1 and
\* whose exponent has its digits at e0..e1-1: its parts are the sign, the integer
\* digits, and whether a fraction or exponent (or "-0") makes it an f64.
NumberLiteral(rd, neg, d0, d1, f1, e0, e1) ==
    IF d1 = d0 THEN SyntaxError(rd, d0)
    ELSE IF Peek(rd, d0) = "0" /\ Peek(rd, d1) \in Digits THEN SyntaxError(rd, d1)
    ELSE IF f1 = d1 + 1 THEN SyntaxError(rd, f1)
    ELSE IF e0 > f1 /\ e1 = e0 THEN SyntaxError(rd, e0)
    ELSE Ok([kind |-> "num", neg |-> neg, digits |-> SubSeq(rd.text, d0, d1 - 1),
             float |-> (e1 > d1) \/ (neg /\ SubSeq(rd.text, d0, d1 - 1) = "0")], e1)

\* parse_integer / parse_decimal / parse_exponent: i is at '-' or a digit.
ParseNumber(rd, i) ==
    Bind(IF Peek(rd, i) = "-" THEN i + 1 ELSE i, LAMBDA d0 :
    Bind(IF Peek(rd, d0) = "0" THEN d0 + 1 ELSE SkipDigits(rd, d0), LAMBDA d1 :
    Bind(IF Peek(rd, d1) = "." THEN SkipDigits(rd, d1 + 1) ELSE d1, LAMBDA f1 :
    Bind(IF Peek(rd, f1) \in {"e", "E"}
         THEN (IF Peek(rd, f1 + 1) \in {"+", "-"} THEN f1 + 2 ELSE f1 + 1)
         ELSE f1, LAMBDA e0 :
    Bind(IF e0 > f1 THEN SkipDigits(rd, e0) ELSE f1, LAMBDA e1 :
         NumberLiteral(rd, d0 > i, d0, d1, f1, e0, e1))))))

\* SeqAccess::next_element at i, the first character that is not white space: ']'
\* ends; a ',' is required between elements and refused before ']'.
SeqNextAt(rd, i, first) ==
    IF Peek(rd, i) = "]" THEN Ok("end", i + 1)
    ELSE IF first THEN Ok("item", i)
    ELSE IF Peek(rd, i) # "," THEN SyntaxError(rd, i)
    ELSE Bind(SkipWs(rd, i + 1), LAMBDA k :
              IF Peek(rd, k) = "]" THEN SyntaxError(rd, k) ELSE Ok("item", k))

SeqNext(rd, i0, first) == SeqNextAt(rd, SkipWs(rd, i0), first)

\* The key at k and the ':' after it.
MapKey(rd, k) ==
    IF Peek(rd, k) # "\"" THEN SyntaxError(rd, k)
    ELSE Then(ParseStrFrom(rd, k + 1, ""), LAMBDA s :
              Bind(SkipWs(rd, s.i), LAMBDA j :
                   IF Peek(rd, j) # ":" THEN SyntaxError(rd, j)
                   ELSE Ok([end |-> FALSE, key |-> s.v], j + 1)))

\* MapAccess::next_key then the ':' of next_value, at i, the first character that
\* is not white space: '}' ends; a ',' is required between members and refused
\* before '}'; a key is a string.
MapNextAt(rd, i, first) ==
    IF Peek(rd, i) = "}" THEN Ok([end |-> TRUE, key |-> ""], i + 1)
    ELSE IF first THEN MapKey(rd, i)
    ELSE IF Peek(rd, i) # "," THEN SyntaxError(rd, i)
    ELSE MapKey(rd, SkipWs(rd, i + 1))

MapNext(rd, i0, first) == MapNextAt(rd, SkipWs(rd, i0), first)

(***************************************************************************)
(* A whole JSON value, as serde's Content buffers it for an untagged enum  *)
(* and as IgnoredAny skips it for an unknown key.                          *)
(***************************************************************************)
RECURSIVE ParseContentAt(_, _, _), ParseSeqItems(_, _, _, _), ParseMapEntries(_, _, _, _)
\* The value at i, whose first character is c.
ParseContentAt(rd, i, c) ==
    CASE c = "n" -> ParseIdent(rd, i, "null", [kind |-> "null"])
      [] c = "t" -> ParseIdent(rd, i, "true", [kind |-> "bool", b |-> TRUE])
      [] c = "f" -> ParseIdent(rd, i, "false", [kind |-> "bool", b |-> FALSE])
      [] c = "-" \/ c \in Digits -> ParseNumber(rd, i)
      [] c = "\"" -> Then(ParseStrFrom(rd, i + 1, ""),
                          LAMBDA s : Ok([kind |-> "str", s |-> s.v], s.i))
      [] c = "[" -> ParseSeqItems(rd, i + 1, TRUE, <<>>)
      [] c = "{" -> ParseMapEntries(rd, i + 1, TRUE, <<>>)
      [] OTHER -> SyntaxError(rd, i)

ParseContent(rd, i0) ==
    Bind(SkipWs(rd, i0), LAMBDA i : ParseContentAt(rd, i, Peek(rd, i)))

ParseSeqItems(rd, i, first, acc) ==
    Then(SeqNext(rd, i, first), LAMBDA n :
         IF n.v = "end" THEN Ok([kind |-> "seq", items |-> acc], n.i)
         ELSE Then(ParseContent(rd, n.i), LAMBDA x :
                   ParseSeqItems(rd, x.i, FALSE, Append(acc, x.v))))

ParseMapEntries(rd, i, first, acc) ==
    Then(MapNext(rd, i, first), LAMBDA n :
         IF n.v.end THEN Ok([kind |-> "map", entries |-> acc], n.i)
         ELSE Then(ParseContent(rd, n.i), LAMBDA x :
                   ParseMapEntries(rd, x.i, FALSE,
                                   Append(acc, [key |-> n.v.key, value |-> x.v]))))

\* IgnoredAny: the value of an unknown key is parsed and dropped.
IgnoreValue(rd, i) == Then(ParseContent(rd, i), LAMBDA x : Ok("ignored", x.i))

(***************************************************************************)
(* The schema (lib.rs 17-446): types, field tables, rename rules.          *)
(***************************************************************************)
None == [some |-> FALSE]

Some(v) == [some |-> TRUE, v |-> v]

TBool == [k |-> "bool"]

TString == [k |-> "string"]

TU32 == [k |-> "u32"]

THashMap == [k |-> "hashmap"]

TOption(t) == [k |-> "option", of |-> t]

TVec(t) == [k |-> "vec", of |-> t]

TEnum(name) == [k |-> "enum", name |-> name]

TStruct(name) == [k |-> "struct", name |-> name]

OptBool == TOption(TBool)

OptString == TOption(TString)

OptVecString == TOption(TVec(TString))

Field(f, ty) == [field |-> f, ty |-> ty]

\* lib.rs 24-28
ReferenceFields ==
    << Field("path", TString), Field("prepend", OptBool) >>

\* lib.rs 33-38
TypeAcquisitionObjectFields ==
    << Field("enable", TBool), Field("include", OptVecString),
       Field("exclude", OptVecString),
       Field("disable_filename_based_type_acquisition", OptBool) >>

\* lib.rs 43-61
TsConfigFields ==
    << Field("exclude", OptVecString), Field("extends", OptString),
       Field("files", OptVecString), Field("include", OptVecString),
       Field("references", TOption(TEnum("References"))),
       Field("type_acquisition", TOption(TEnum("TypeAcquisition"))),
       Field("compiler_options", TOption(TStruct("CompilerOptions"))) >>

\* lib.rs 65-428
CompilerOptionsFields ==
    <<
       Field("allow_js", OptBool),
       Field("check_js", OptBool),
       Field("composite", OptBool),
       Field("declaration", OptBool),
       Field("declaration_map", OptBool),
       Field("downlevel_iteration", OptBool),
       Field("import_helpers", OptBool),
       Field("incremental", OptBool),
       Field("isolated_modules", OptBool),
       Field("jsx", TOption(TEnum("Jsx"))),
       Field("lib", TOption(TVec(TEnum("Lib")))),
       Field("module", TOption(TEnum("Module"))),
       Field("no_emit", OptBool),
       Field("out_dir", OptString),
       Field("out_file", OptString),
       Field("remove_comments", OptBool),
       Field("root_dir", OptString),
       Field("source_map", OptBool),
       Field("target", TOption(TEnum("Target"))),
       Field("ts_build_info_file", OptString),
       Field("always_strict", OptBool),
       Field("no_implicit_any", OptBool),
       Field("no_implicit_this", OptBool),
       Field("strict", OptBool),
       Field("strict_bind_call_apply", OptBool),
       Field("strict_function_types", OptBool),
       Field("strict_null_checks", OptBool),
       Field("strict_property_initialization", OptBool),
       Field("allow_synthetic_default_imports", OptBool),
       Field("allow_umd_global_access", OptBool),
       Field("base_url", OptBool),
       Field("es_module_interop", OptBool),
       Field("module_resolution", TOption(TEnum("ModuleResolutionMode"))),
       Field("paths", TOption(THashMap)),
       Field("preserve_symlinks", OptBool),
       Field("root_dirs", OptVecString),
       Field("type_roots", OptVecString),
       Field("types", OptVecString),
       Field("inline_source_map", OptBool),
       Field("inline_sources", OptBool),
       Field("map_root", OptString),
       Field("source_root", OptString),
       Field("no_fallthrough_cases_in_switch", OptBool),
       Field("no_implicit_returns", OptBool),
       Field("no_property_access_from_index_signature", OptBool),
       Field("no_unchecked_indexed_access", OptBool),
       Field("no_unused_locals", OptBool),
       Field("emit_decorator_metadata", OptBool),
       Field("experimental_decorators", OptBool),
       Field("allow_unreachable_code", OptBool),
       Field("allow_unused_labels", OptBool),
       Field("assume_changes_only_affect_direct_dependencies", OptBool),
       Field("charset", OptString),
       Field("declaration_dir", OptString),
       Field("diagnostics", OptBool),
       Field("disable_referenced_project_load", OptBool),
       Field("disable_size_limit", OptBool),
       Field("disable_solution_searching", OptBool),
       Field("disable_source_of_project_reference_redirect", OptBool),
       Field("emit_bom", OptBool),
       Field("emit_declaration_only", OptBool),
       Field("explain_files", OptBool),
       Field("extended_diagnostics", OptBool),
       Field("force_consistent_casing_in_file_names", OptBool),
       Field("generate_cpu_profile", OptBool),
       Field("imports_not_used_as_values", OptString),
       Field("jsx_factory", OptString),
       Field("jsx_fragment_factory", OptString),
       Field("jsx_import_source", OptString),
       Field("keyof_strings_only", OptBool),
       Field("list_emitted_files", OptBool),
       Field("list_files", OptBool),
       Field("max_node_module_js_depth", TOption(TU32)),
       Field("no_emit_helpers", OptBool),
       Field("no_emit_on_error", OptBool),
       Field("no_error_truncation", OptBool),
       Field("no_implicit_use_strict", OptBool),
       Field("no_lib", OptBool),
       Field("no_resolve", OptBool),
       Field("no_strict_generic_checks", OptBool),
       Field("out", OptBool),
       Field("preserve_const_enums", OptBool),
       Field("react_namespace", OptString),
       Field("resolve_json_module", OptBool),
       Field("skip_default_lib_check", OptBool),
       Field("skip_lib_check", OptBool),
       Field("strip_internal", OptBool)
    >>

StructFields(name) ==
    CASE name = "TsConfig" -> TsConfigFields
      [] name = "CompilerOptions" -> CompilerOptionsFields
      [] name = "Reference" -> ReferenceFields
      [] name = "TypeAcquisition::Object" -> TypeAcquisitionObjectFields

\* serde_derive RenameRule::PascalCase.apply_to_field
RECURSIVE PascalCaseFrom(_, _, _)
PascalCaseFrom(f, i, capitalize) ==
    IF i > Len(f) THEN ""
    ELSE IF Ch(f, i) = "_" THEN PascalCaseFrom(f, i + 1, TRUE)
    ELSE IF capitalize THEN UpperChar(Ch(f, i)) \o PascalCaseFrom(f, i + 1, FALSE)
    ELSE Ch(f, i) \o PascalCaseFrom(f, i + 1, FALSE)

\* serde_derive RenameRule::CamelCase.apply_to_field
CamelCase(f) ==
    LET pascal == PascalCaseFrom(f, 1, TRUE)
    IN  LowerChar(Ch(pascal, 1)) \o SubSeq(pascal, 2, Len(pascal))

\* serde_derive RenameRule::KebabCase.apply_to_variant
RECURSIVE KebabCaseFrom(_, _)
KebabCaseFrom(v, i) ==
    IF i > Len(v) THEN ""
    ELSE (IF i > 1 /\ IndexIn(Ch(v, i), UpperLetters) > 0 THEN "-" ELSE "")
         \o LowerChar(Ch(v, i)) \o KebabCaseFrom(v, i + 1)

KebabCase(v) == KebabCaseFrom(v, 1)

\* The external key of a field: #[serde(rename_all = "camelCase")] is on
\* TsConfig (lib.rs 42) and on no other struct (lib.rs 24, 30, 64).
FieldKey(struct, f) ==
    IF struct = "TsConfig" THEN CamelCase(f) ELSE f

Variant(v, key, shape) == [variant |-> v, key |-> key, shape |-> shape]

\* lib.rs 430-436
ModuleResolutionModeVariants ==
    << Variant("Node", "node", "unit"), Variant("Classic", "classic", "unit") >>

\* lib.rs 438-446
JsxVariants ==
    << Variant("React", KebabCase("React"), "unit"),
       Variant("ReactJsx", KebabCase("ReactJsx"), "unit"),
       Variant("ReactJsxdev", KebabCase("ReactJsxdev"), "unit"),
       Variant("ReactNative", KebabCase("ReactNative"), "unit"),
       Variant("Preserve", KebabCase("Preserve"), "unit") >>

\* lib.rs 30-39: no #[serde(untagged)], so the enum is externally tagged.
TypeAcquisitionVariants ==
    << Variant("Bool", "Bool", "newtype"), Variant("Object", "Object", "struct") >>

DerivedVariants(name) ==
    CASE name = "Jsx" -> JsxVariants
      [] name = "ModuleResolutionMode" -> ModuleResolutionModeVariants
      [] name = "TypeAcquisition" -> TypeAcquisitionVariants

Arm(pattern, variant) == [pattern |-> pattern, variant |-> variant]

\* The arms with one more, for the variant Es3 that the enum declares.
TargetArmsWithEs3 ==
    << Arm("ES3", "Es3"), Arm("ES5", "Es5"), Arm("ES2015", "Es2015"), Arm("ES6", "Es6"),
       Arm("ES2016", "Es2016"), Arm("ES7", "Es7"), Arm("ES2017", "Es2017"),
       Arm("ES2018", "Es2018"), Arm("ES2019", "Es2019"), Arm("ES2020", "Es2020"),
       Arm("ESNEXT", "EsNext") >>

\* lib.rs 470-487
TargetArms ==
    << Arm("ES5", "Es5"), Arm("ES2015", "Es2015"), Arm("ES6", "Es6"),
       Arm("ES2016", "Es2016"), Arm("ES7", "Es7"), Arm("ES2017", "Es2017"),
       Arm("ES2018", "Es2018"), Arm("ES2019", "Es2019"), Arm("ES2020", "Es2020"),
       Arm("ESNEXT", "EsNext") >>

\* lib.rs 546-594
LibArms ==
    << Arm("ES5", "Es5"), Arm("ES2015", "Es2015"), Arm("ES6", "Es6"),
       Arm("ES2016", "Es2016"), Arm("ES7", "Es7"), Arm("ES2017", "Es2017"),
       Arm("ES2018", "Es2018"), Arm("ES2019", "Es2019"), Arm("ES2020", "Es2020"),
       Arm("ESNext", "EsNext"), Arm("DOM", "Dom"), Arm("WEBWORKER", "WebWorker"),
       Arm("SCRIPTHOST", "ScriptHost"), Arm("DOM.ITERABLE", "DomIterable"),
       Arm("ES2015.CORE", "Es2015Core"), Arm("ES2015.GENERATOR", "Es2015Generator"),
       Arm("ES2015.ITERABLE", "Es2015Iterable"), Arm("ES2015.PROMISE", "Es2015Promise"),
       Arm("ES2015.PROXY", "Es2015Proxy"), Arm("ES2015.REFLECT", "Es2015Reflect"),
       Arm("ES2015.SYMBOL", "Es2015Symbol"),
       Arm("ES2015.SYMBOL.WELLKNOWN", "Es2015SymbolWellKnown"),
       Arm("ES2015.ARRAY.INCLUDE", "Es2016ArrayInclude"),
       Arm("ES2015.OBJECT", "Es2017Object"), Arm("ES2017INTL", "Es2017Intl"),
       Arm("ES2015.SHAREDMEMORY", "Es2017SharedMemory"),
       Arm("ES2017.STRING", "Es2017String"),
       Arm("ES2017.TYPEDARRAYS", "Es2017TypedArrays"),
       Arm("ES2018.INTL", "Es2018Intl"), Arm("ES2018.PROMISE", "Es2018Promise"),
       Arm("ES2018.REGEXP", "Es2018RegExp"), Arm("ES2019.ARRAY", "Es2019Array"),
       Arm("ES2019.OBJECT", "Es2019Object"), Arm("ES2019.STRING", "Es2019String"),
       Arm("ES2019.SYMBOL", "Es2019Symbol"), Arm("ES2020.STRING", "Es2020String"),
       Arm("ES2020.SYMBOL.WELLKNOWN", "Es2020SymbolWellknown"),
       Arm("ESNEXT.ASYNCITERABLE", "EsNextAsyncIterable"),
       Arm("ESNEXT.ARRAY", "EsNextArray"), Arm("ESNEXT.INTL", "EsNextIntl"),
       Arm("ESNEXT.SYMBOL", "EsNextSymbol") >>

\* lib.rs 621-637
ModuleArms ==
    << Arm("COMMONJS", "CommonJs"), Arm("ESNEXT", "EsNext"), Arm("ES6", "Es6"),
       Arm("ES2015", "Es2015"), Arm("ES2020", "Es2020"), Arm("NONE", "None"),
       Arm("UMD", "Umd"), Arm("AMD", "Amd"), Arm("SYSTEM", "System") >>

\* lib.rs 448-461, 493-536, 600-611: the variants each enum declares.
TargetVariants ==
    {"Es3", "Es5", "Es2015", "Es6", "Es2016", "Es7", "Es2017", "Es2018", "Es2019",
     "Es2020", "EsNext"}

LibVariants ==
    {"Es5", "Es2015", "Es6", "Es2016", "Es7", "Es2017", "Es2018", "Es2019", "Es2020",
     "EsNext", "Dom", "WebWorker", "ScriptHost", "DomIterable", "Es2015Core",
     "Es2015Generator", "Es2015Iterable", "Es2015Promise", "Es2015Proxy",
     "Es2015Reflect", "Es2015Symbol", "Es2015SymbolWellKnown", "Es2016ArrayInclude",
     "Es2017Object", "Es2017Intl", "Es2017SharedMemory", "Es2017String",
     "Es2017TypedArrays", "Es2018Intl", "Es2018Promise", "Es2018RegExp",
     "Es2019Array", "Es2019Object", "Es2019String", "Es2019Symbol", "Es2020String",
     "Es2020SymbolWellknown", "EsNextAsyncIterable", "EsNextArray", "EsNextIntl",
     "EsNextSymbol"}

ModuleVariants ==
    {"CommonJs", "Es6", "Es2015", "Es2020", "None", "Umd", "Amd", "System", "EsNext"}

\* The first arm of the match that has pattern u, or 0 (the `other` arm).
FirstArm(arms, u) ==
    IF \E k \in 1..Len(arms) : arms[k].pattern = u
    THEN CHOOSE k \in 1..Len(arms) :
            /\ arms[k].pattern = u
            /\ \A j \in 1..(k - 1) : arms[j].pattern # u
    ELSE 0

MatchUpper(arms, expected, u, k) ==
    IF k = 0 THEN Error("invalid_value", u, expected)
    ELSE [ok |-> TRUE, v |-> arms[k].variant]

\* The hand-written impls (lib.rs 462-491, 538-598, 613-641): the match on the
\* upper-cased string, first arm first; `other` is the upper-cased string.
MatchArms(arms, expected, s) ==
    Bind(to_uppercase(s), LAMBDA u : MatchUpper(arms, expected, u, FirstArm(arms, u)))

TargetFromStr(s) == MatchArms(TargetArms, "valid target type", s)

LibFromStr(s) == MatchArms(LibArms, "valid library type", s)

ModuleFromStr(s) == MatchArms(ModuleArms, "valid module type", s)

(***************************************************************************)
(* The typed decode: what #[derive(Deserialize)] and the impls of lib.rs   *)
(* make serde_json do for each type of the schema.                         *)
(***************************************************************************)
StructNames == {"TsConfig", "CompilerOptions", "Reference", "TypeAcquisition::Object"}

\* A struct's fields fs under its name: the external key of each, the set of the
\* field names, and the position of each.
StructSchema(name, fs) ==
    [name   |-> name,
     fields |-> fs,
     keys   |-> [k \in 1..Len(fs) |-> FieldKey(name, fs[k].field)],
     names  |-> {fs[k].field : k \in 1..Len(fs)},
     pos    |-> [f \in {fs[k].field : k \in 1..Len(fs)} |->
                    CHOOSE k \in 1..Len(fs) : fs[k].field = f]]

Schema == [name \in StructNames |-> StructSchema(name, StructFields(name))]

\* The same with keys compared without regard to letter case.
FieldIndexIgnoringCase(keys, key) ==
    IF \E k \in 1..Len(keys) : Len(keys[k]) = Len(key) /\ to_uppercase(keys[k]) = to_uppercase(key)
    THEN CHOOSE k \in 1..Len(keys) :
            Len(keys[k]) = Len(key) /\ to_uppercase(keys[k]) = to_uppercase(key)
    ELSE 0

\* The derived field visitor's visit_str: the index of the field the key names, or 0
\* (__ignore).
FieldIndex(keys, key) ==
    IF \E k \in 1..Len(keys) : keys[k] = key
    THEN CHOOSE k \in 1..Len(keys) : keys[k] = key
    ELSE 0

\* peek_invalid_type: a value of another JSON kind than the visitor expects.
TypeMismatch(rd, i, expected) ==
    IF Peek(rd, i) \in {"[", "{"} THEN InvalidType(expected)
    ELSE Then(ParseContent(rd, i), LAMBDA x : InvalidType(expected))

DecimalDigits == "0123456789"

RECURSIVE DigitsLess(_, _, _)
DigitsLess(a, b, i) ==
    IF i > Len(a) THEN FALSE
    ELSE IF Ch(a, i) = Ch(b, i) THEN DigitsLess(a, b, i + 1)
    ELSE IndexIn(Ch(a, i), DecimalDigits) < IndexIn(Ch(b, i), DecimalDigits)

\* a <= b for decimal literals without leading zeros.
DigitsLeq(a, b) ==
    Len(a) < Len(b) \/ (Len(a) = Len(b) /\ (a = b \/ DigitsLess(a, b, 1)))

U32Max == "4294967295"

U64Max == "18446744073709551615"

\* The integer literal n as a u32.
U32FromNumber(n) ==
    IF n.v.float \/ ~DigitsLeq(n.v.digits, U64Max) THEN InvalidType("u32")
    ELSE IF n.v.neg \/ ~DigitsLeq(n.v.digits, U32Max)
         THEN Error("invalid_value", n.v.digits, "u32")
    ELSE Ok(n.v.digits, n.i)

\* Option<u32> (lib.rs 372): a non-negative integer literal that fits u32.
DeU32(rd, i, c) ==
    IF c = "-" \/ c \in Digits
    THEN Then(ParseNumber(rd, i), LAMBDA n : U32FromNumber(n))
    ELSE TypeMismatch(rd, i, "u32")

\* An entry out of the members `path` (at) and `prepend` (pre) of a buffered map:
\* one string `path` and at most one `prepend`, null or a boolean; absent is the
\* prepend flag of an entry without the member.
ReferenceFromMembers(c, at, pre, absent) ==
    IF /\ Cardinality(at) = 1
       /\ c.entries[CHOOSE k \in at : TRUE].value.kind = "str"
       /\ Cardinality(pre) <= 1
       /\ pre # {} => c.entries[CHOOSE k \in pre : TRUE].value.kind \in {"null", "bool"}
    THEN [ok |-> TRUE,
          v |-> [path |-> c.entries[CHOOSE k \in at : TRUE].value.s,
                 prepend |-> IF pre = {} THEN absent
                             ELSE IF c.entries[CHOOSE k \in pre : TRUE].value.kind = "bool"
                                  THEN Some(c.entries[CHOOSE k \in pre : TRUE].value.b)
                                  ELSE None]]
    ELSE [ok |-> FALSE]

\* The members of the buffered map c under key.
MembersAt(c, key) == {k \in 1..Len(c.entries) : c.entries[k].key = key}

\* An entry read from an object only, with an omitted prepend flag read as false.
ReferenceWithDefaultPrepend(c) ==
    IF c.kind = "map"
    THEN ReferenceFromMembers(c, MembersAt(c, "path"), MembersAt(c, "prepend"), Some(FALSE))
    ELSE [ok |-> FALSE]

\* Reference (lib.rs 24-28) out of buffered Content: a map with one string `path`
\* and at most one `prepend` (null or a boolean), or a sequence of the two.
ReferenceFromContent(c) ==
    IF c.kind = "map"
    THEN ReferenceFromMembers(c, MembersAt(c, FieldKey("Reference", "path")),
                              MembersAt(c, FieldKey("Reference", "prepend")), None)
    ELSE IF /\ c.kind = "seq"
            /\ Len(c.items) = 2
            /\ c.items[1].kind = "str"
            /\ c.items[2].kind \in {"null", "bool"}
         THEN [ok |-> TRUE,
               v |-> [path |-> c.items[1].s,
                      prepend |-> IF c.items[2].kind = "bool"
                                  THEN Some(c.items[2].b) ELSE None]]
         ELSE [ok |-> FALSE]

\* The variants of References tried in order on the buffered value x.v:
\* Bool(bool), then References(Vec<Reference>).
ReferencesFromContent(x) ==
    IF x.v.kind = "bool" THEN Ok([variant |-> "Bool", v |-> x.v.b], x.i)
    ELSE IF /\ x.v.kind = "seq"
            /\ \A k \in 1..Len(x.v.items) : ReferenceFromContent(x.v.items[k]).ok
         THEN Ok([variant |-> "References",
                  v |-> [k \in 1..Len(x.v.items) |-> ReferenceFromContent(x.v.items[k]).v]],
                 x.i)
    ELSE Error("untagged", "", "data did not match any variant of untagged enum References")

\* A union that also takes a lone entry for a list of one.
DeReferencesLenient(rd, i) ==
    Then(ParseContent(rd, i), LAMBDA x :
         IF x.v.kind = "map" /\ ReferenceFromContent(x.v).ok
         THEN Ok([variant |-> "References", v |-> <<ReferenceFromContent(x.v).v>>], x.i)
         ELSE ReferencesFromContent(x))

\* References (lib.rs 17-22), #[serde(untagged)]: the value is buffered, then each
\* variant is tried.
DeReferences(rd, i) == Then(ParseContent(rd, i), LAMBDA x : ReferencesFromContent(x))

VariantIndex(vs, key) ==
    IF \E k \in 1..Len(vs) : vs[k].key = key
    THEN CHOOSE k \in 1..Len(vs) : vs[k].key = key
    ELSE 0

\* The end of a derived visit_map / visit_seq: an absent Option field is None, any
\* other absent field is an error.  acc[k] is None or Some(value of field k).
FinishFields(sc, acc, i, missing) ==
    IF missing # {}
    THEN Error("missing_field", sc.keys[CHOOSE k \in missing : \A j \in missing : k <= j],
               sc.name)
    ELSE Ok([f \in sc.names |-> IF acc[sc.pos[f]].some THEN acc[sc.pos[f]].v ELSE None], i)

FinishStruct(sc, acc, i) ==
    FinishFields(sc, acc, i,
                 {k \in 1..Len(sc.fields) : ~acc[k].some /\ sc.fields[k].ty.k # "option"})

\* The variant a string names in the string form of a derived enum.
UnitVariant(name, vs, s, k) ==
    IF k = 0 THEN Error("unknown_variant", s.v, name)
    ELSE IF vs[k].shape = "unit" THEN Ok(vs[k].variant, s.i)
    ELSE InvalidType(vs[k].shape \o " variant")

\* The '}' that closes the object form of a derived enum after its one member.
EndVariant(rd, b, j) ==
    IF Peek(rd, j) = "}" THEN Ok(b.v, j + 1) ELSE SyntaxError(rd, j)

RECURSIVE De(_, _, _), DeAt(_, _, _, _), DeSeq(_, _, _, _, _), DeHashMap(_, _, _, _),
          DeStructMap(_, _, _, _, _), DeField(_, _, _, _, _, _),
          DeStructSeq(_, _, _, _, _), DeVariantBody(_, _, _, _), DeVariant(_, _, _, _, _, _)

\* T::deserialize for a type T of the schema, at position i0.
De(ty, rd, i0) == Bind(SkipWs(rd, i0), LAMBDA i : DeAt(ty, rd, i, Peek(rd, i)))

\* The same at i, whose character is c.
DeAt(ty, rd, i, c) ==
    CASE ty.k = "bool" ->
           IF c = "t" THEN ParseIdent(rd, i, "true", TRUE)
           ELSE IF c = "f" THEN ParseIdent(rd, i, "false", FALSE)
           ELSE TypeMismatch(rd, i, "a boolean")
      [] ty.k = "string" \/ (ty.k = "enum" /\ ty.name \in {"Target", "Lib", "Module"}) ->
           IF c # "\"" THEN TypeMismatch(rd, i, "a string")
           ELSE Then(ParseStrFrom(rd, i + 1, ""), LAMBDA s :
                CASE ty.k = "string" -> s
                  [] ty.name = "Target" ->
                       Then(TargetFromStr(s.v), LAMBDA m : Ok(m.v, s.i))
                  [] ty.name = "Lib" ->
                       Then(LibFromStr(s.v), LAMBDA m : Ok(m.v, s.i))
                  [] ty.name = "Module" ->
                       Then(ModuleFromStr(s.v), LAMBDA m : Ok(m.v, s.i)))
      [] ty.k = "u32" -> DeU32(rd, i, c)
      [] ty.k = "option" ->
           IF c = "n" THEN ParseIdent(rd, i, "null", None)
           ELSE Then(DeAt(ty.of, rd, i, c), LAMBDA x : Ok(Some(x.v), x.i))
      [] ty.k = "vec" ->
           IF c = "[" THEN DeSeq(ty.of, rd, i + 1, TRUE, <<>>)
           ELSE TypeMismatch(rd, i, "a sequence")
      [] ty.k = "hashmap" ->
           IF c = "{" THEN DeHashMap(rd, i + 1, TRUE, {})
           ELSE TypeMismatch(rd, i, "a map")
      [] ty.k = "struct" ->
           \* deserialize_struct: an object is visited as a map, an array as a sequence.
           IF c = "{"
           THEN DeStructMap(Schema[ty.name], rd, i + 1, TRUE,
                            [k \in 1..Len(StructFields(ty.name)) |-> None])
           ELSE IF c = "["
           THEN DeStructSeq(Schema[ty.name], rd, i + 1, 1,
                            [k \in 1..Len(StructFields(ty.name)) |-> None])
           ELSE TypeMismatch(rd, i, ty.name)
      [] ty.k = "enum" /\ ty.name = "References" -> DeReferences(rd, i)
      [] ty.k = "enum" /\ ty.name \in {"Jsx", "ModuleResolutionMode", "TypeAcquisition"} ->
           \* deserialize_enum for a derived, externally tagged enum: a string names a
           \* unit variant; an object holds exactly one `"variant": content` member.
           IF c = "\""
           THEN Then(ParseStrFrom(rd, i + 1, ""), LAMBDA s :
                     UnitVariant(ty.name, DerivedVariants(ty.name), s,
                                 VariantIndex(DerivedVariants(ty.name), s.v)))
           ELSE IF c = "{"
           THEN Bind(SkipWs(rd, i + 1), LAMBDA k :
                     IF Peek(rd, k) # "\"" THEN TypeMismatch(rd, k, "variant identifier")
                     ELSE Then(ParseStrFrom(rd, k + 1, ""), LAMBDA s :
                               DeVariant(ty.name, DerivedVariants(ty.name), rd, s,
                                         VariantIndex(DerivedVariants(ty.name), s.v),
                                         SkipWs(rd, s.i))))
           ELSE SyntaxError(rd, i)

\* A sequence read without the elements it already holds.
DeSeqWithoutDuplicates(ty, rd, i, first, acc) ==
    Then(SeqNext(rd, i, first), LAMBDA n :
         IF n.v = "end" THEN Ok(acc, n.i)
         ELSE Then(De(ty, rd, n.i), LAMBDA x :
                   DeSeq(ty, rd, x.i, FALSE,
                         IF \E k \in 1..Len(acc) : acc[k] = x.v THEN acc
                         ELSE Append(acc, x.v))))

\* Vec<T>
DeSeq(ty, rd, i, first, acc) ==
    Then(SeqNext(rd, i, first), LAMBDA n :
         IF n.v = "end" THEN Ok(acc, n.i)
         ELSE Then(De(ty, rd, n.i), LAMBDA x :
                   DeSeq(ty, rd, x.i, FALSE, Append(acc, x.v))))

\* HashMap<String, Vec<String>> (lib.rs 197): a later duplicate key replaces the
\* earlier entry.  The map is the set of its <<key, value>> pairs.
DeHashMap(rd, i, first, acc) ==
    Then(MapNext(rd, i, first), LAMBDA n :
         IF n.v.end THEN Ok(acc, n.i)
         ELSE Then(De(TVec(TString), rd, n.i), LAMBDA x :
                   DeHashMap(rd, x.i, FALSE,
                             {p \in acc : p[1] # n.v.key} \cup {<<n.v.key, x.v>>})))

\* The derived visit_map: an unknown key's value is ignored, a known key seen twice
\* is an error before its value is read.
DeStructMap(sc, rd, i, first, acc) ==
    Then(MapNext(rd, i, first), LAMBDA n :
         IF n.v.end THEN FinishStruct(sc, acc, n.i)
         ELSE DeField(sc, rd, n.i, acc, n.v.key, FieldIndex(sc.keys, n.v.key)))

\* The value at i of the member whose key names field k (0: no field).
DeField(sc, rd, i, acc, key, k) ==
    IF k = 0
    THEN Then(IgnoreValue(rd, i), LAMBDA x : DeStructMap(sc, rd, x.i, FALSE, acc))
    ELSE IF acc[k].some THEN Error("duplicate_field", key, sc.name)
    ELSE Then(De(sc.fields[k].ty, rd, i), LAMBDA x :
              DeStructMap(sc, rd, x.i, FALSE, [acc EXCEPT ![k] = Some(x.v)]))

\* The derived visit_seq: the fields in declaration order, all of them, then ']'.
DeStructSeq(sc, rd, i, k, acc) ==
    IF k > Len(sc.fields)
    THEN Bind(SkipWs(rd, i), LAMBDA e :
              IF Peek(rd, e) = "]" THEN FinishStruct(sc, acc, e + 1) ELSE SyntaxError(rd, e))
    ELSE Then(SeqNext(rd, i, k = 1), LAMBDA n :
              IF n.v = "end" THEN Error("invalid_length", "", sc.name)
              ELSE Then(De(sc.fields[k].ty, rd, n.i), LAMBDA x :
                        DeStructSeq(sc, rd, x.i, k + 1, [acc EXCEPT ![k] = Some(x.v)])))

\* The content of variant v after `"key":` in the object form of an enum.
DeVariantBody(name, v, rd, i) ==
    CASE v.shape = "unit" ->
           IF Peek(rd, i) = "n" THEN ParseIdent(rd, i, "null", v.variant)
           ELSE TypeMismatch(rd, i, "unit variant")
      [] v.shape \in {"newtype", "struct"} ->
           Then(De(IF v.shape = "newtype" THEN TBool
                   ELSE TStruct(name \o "::" \o v.variant), rd, i),
                LAMBDA x : Ok([variant |-> v.variant, v |-> x.v], x.i))

\* The one member of the object form: the key s names variant k (0: none), j is
\* where its ':' must be.
DeVariant(name, vs, rd, s, k, j) ==
    IF k = 0 THEN Error("unknown_variant", s.v, name)
    ELSE IF Peek(rd, j) # ":" THEN SyntaxError(rd, j)
    ELSE Then(DeVariantBody(name, vs[k], rd, SkipWs(rd, j + 1)), LAMBDA b :
              EndVariant(rd, b, SkipWs(rd, b.i)))

\* The end of the input after the value x: only white space may follow.
EndOfInput(rd, x, j) ==
    IF Peek(rd, j) = EOF THEN [ok |-> TRUE, v |-> x.v] ELSE SyntaxError(rd, j)

\* lib.rs 13: serde_json::from_reader::<_, TsConfig>: the value, then only
\* whitespace to the end of the input.
from_reader(rd) ==
    Then(De(TStruct("TsConfig"), rd, 1), LAMBDA x : EndOfInput(rd, x, SkipWs(rd, x.i)))

\* lib.rs 8-15: parse_str as one function of the text.
parse_str(t) == from_reader(StripComments(replace_all(t)))

(***************************************************************************)
(* The documents parse_str is run on.  `doc` records how the document was  *)
(* drawn (its family and the pieces it was put together from); `input` is  *)
(* its text.  parse_str reads `input` only.                                *)
(***************************************************************************)
MaxFill == 4

Quote(s) == "\"" \o s \o "\""

Member(key, value) == Quote(key) \o ":" \o value

Object1(key, value) == "{" \o Member(key, value) \o "}"

RECURSIVE WordsUpTo(_, _)
WordsUpTo(alphabet, n) ==
    IF n = 0 THEN {""}
    ELSE WordsUpTo(alphabet, n - 1)
         \cup {w \o c : w \in WordsUpTo(alphabet, n - 1), c \in alphabet}

\* What stands between the last member or element and the closing bracket.
FillChars == {",", " ", "\n", "/", "*"}

Fillers == WordsUpTo(FillChars, MaxFill)

TailShapes == {"object", "nested", "array", "files"}

TailDocs == {[fam |-> "tail", shape |-> sh, w |-> w] : sh \in TailShapes, w \in Fillers}

TailText(d) ==
    CASE d.shape = "object" -> "{\"a\":1" \o d.w \o "}"
      [] d.shape = "nested" ->
           "{\"compilerOptions\":{\"a\":{\"b\":1" \o d.w \o "}" \o d.w \o "}" \o d.w \o "}"
      [] d.shape = "array" -> "{\"a\":[1,2" \o d.w \o "]}"
      [] d.shape = "files" -> "{\"files\":[]" \o d.w \o "}"

Options(body) == Object1("compilerOptions", body)

RECURSIVE Join(_, _)
Join(members, k) ==
    IF k > Len(members) THEN ""
    ELSE members[k] \o (IF k < Len(members) THEN "," ELSE "") \o Join(members, k + 1)

InsertAt(seq, k, x) == SubSeq(seq, 1, k) \o <<x>> \o SubSeq(seq, k + 1, Len(seq))

\* --- one option under one spelling of its key, with a value of its type ---
Sample(text, value) == [text |-> text, value |-> value]

\* Values of each type of the schema, as written in a document and as decoded.
WellTyped(oty) ==
    LET ty == IF oty.k = "option" THEN oty.of ELSE oty IN
    CASE ty.k = "bool" -> <<Sample("true", TRUE), Sample("false", FALSE)>>
      [] ty.k = "string" -> <<Sample("\"src\"", "src")>>
      [] ty.k = "u32" -> <<Sample("2", "2")>>
      [] ty.k = "vec" /\ ty.of.k = "string" ->
           <<Sample("[]", <<>>), Sample("[\"b\",\"a\",\"b\"]", <<"b", "a", "b">>)>>
      [] ty.k = "vec" /\ ty.of.k = "enum" -> <<Sample("[\"dom\"]", <<"Dom">>)>>
      [] ty.k = "hashmap" ->
           <<Sample("{\"blah\":[\"bloop\"]}", {<<"blah", <<"bloop">>>>})>>
      [] ty.k = "enum" /\ ty.name = "Jsx" -> <<Sample("\"react-jsx\"", "ReactJsx")>>
      [] ty.k = "enum" /\ ty.name = "Module" -> <<Sample("\"commonjs\"", "CommonJs")>>
      [] ty.k = "enum" /\ ty.name = "Target" -> <<Sample("\"es5\"", "Es5")>>
      [] ty.k = "enum" /\ ty.name = "ModuleResolutionMode" -> <<Sample("\"node\"", "Node")>>

KeySpellings == {"camel", "snake", "pascal", "upper"}

Spell(f, spelling) ==
    CASE spelling = "camel" -> CamelCase(f)
      [] spelling = "snake" -> f
      [] spelling = "pascal" -> PascalCaseFrom(f, 1, TRUE)
      [] spelling = "upper" -> to_uppercase(CamelCase(f))

OptionType(f) == Schema["CompilerOptions"].fields[Schema["CompilerOptions"].pos[f]].ty

OptionDocs ==
    {[fam |-> "option", field |-> f, spelling |-> sp, val |-> n] :
        f \in Schema["CompilerOptions"].names, sp \in KeySpellings, n \in 1..2}

OptionSample(d) ==
    LET ws == WellTyped(OptionType(d.field))
    IN  ws[IF d.val <= Len(ws) THEN d.val ELSE 1]

OptionText(d) == Options(Object1(Spell(d.field, d.spelling), OptionSample(d).text))

\* --- a document, and the same document with one more, unknown, key ---
MaxNest == 1

Scalars == {"null", "true", "1", "\"x\"", "\",}\"", "\"/*\""}

RECURSIVE JsonValues(_)
JsonValues(n) ==
    IF n = 0 THEN Scalars
    ELSE Scalars \cup {"[]", "{}"}
         \cup {"[" \o v \o "]" : v \in JsonValues(n - 1)}
         \cup {"{\"files\":" \o v \o "}" : v \in JsonValues(n - 1)}

Base(top, hasOptions, options) == [top |-> top, hasOptions |-> hasOptions, options |-> options]

BaseDocs ==
    << Base(<<>>, FALSE, <<>>),
       Base(<<>>, TRUE, <<>>),
       Base(<<"\"files\":[\"a\"]">>, FALSE, <<>>),
       Base(<<"\"extends\":\"b\"", "\"references\":true">>, TRUE, <<"\"strict\":true">>),
       Base(<<>>, TRUE, <<"\"jsx\":\"react\"", "\"target\":\"es5\"">>),
       Base(<<"\"include\":[]">>, TRUE, <<"\"target\":\"es1\"">>),
       Base(<<"\"files\":true">>, FALSE, <<>>) >>

UnknownKeys == {"bleep", "someNewUnsupportedProperty", "Files", "STRICT"}

Render(b) ==
    "{" \o Join(IF b.hasOptions
                THEN Append(b.top, "\"compilerOptions\":{" \o Join(b.options, 1) \o "}")
                ELSE b.top, 1) \o "}"

WithUnknown(b, where, at, member) ==
    IF where = "top" THEN [b EXCEPT !.top = InsertAt(b.top, at, member)]
    ELSE [b EXCEPT !.options = InsertAt(b.options, at, member)]

BaseFamily == {[fam |-> "base", base |-> n] : n \in 1..Len(BaseDocs)}

UnknownDocs ==
    {[fam |-> "unknown", base |-> n, where |-> wh, at |-> at, key |-> k, value |-> v] :
        n \in 1..Len(BaseDocs), wh \in {"top", "options"}, at \in 0..2,
        k \in UnknownKeys, v \in JsonValues(MaxNest)}

UnknownFamily ==
    {d \in UnknownDocs :
        /\ d.where = "options" => BaseDocs[d.base].hasOptions
        /\ d.at <= Len(IF d.where = "top" THEN BaseDocs[d.base].top
                       ELSE BaseDocs[d.base].options)}

UnknownText(d) ==
    Render(WithUnknown(BaseDocs[d.base], d.where, d.at, Member(d.key, d.value)))

\* --- an enum option: a spelling of the vocabulary in some letter case, or a
\* string outside the vocabulary ---
Spelling(variant, s) == [variant |-> variant, s |-> s]

TargetSpellings ==
    { Spelling("Es5", "ES5"), Spelling("Es2015", "ES2015"), Spelling("Es6", "ES6"),
      Spelling("Es2016", "ES2016"), Spelling("Es7", "ES7"), Spelling("Es2017", "ES2017"),
      Spelling("Es2018", "ES2018"), Spelling("Es2019", "ES2019"),
      Spelling("Es2020", "ES2020"), Spelling("EsNext", "ESNext") }

ModuleSpellings ==
    { Spelling("CommonJs", "CommonJS"), Spelling("Es6", "ES6"), Spelling("Es2015", "ES2015"),
      Spelling("Es2020", "ES2020"), Spelling("None", "None"), Spelling("Umd", "UMD"),
      Spelling("Amd", "AMD"), Spelling("System", "System"), Spelling("EsNext", "ESNext") }

JsxSpellings ==
    { Spelling("React", "react"), Spelling("ReactJsx", "react-jsx"),
      Spelling("ReactJsxdev", "react-jsxdev"), Spelling("ReactNative", "react-native"),
      Spelling("Preserve", "preserve") }

ModuleResolutionSpellings == { Spelling("Node", "node"), Spelling("Classic", "classic") }

\* Each library variant under the spelling of its own level and facility.
LibSpellings ==
    { Spelling("Es5", "es5"), Spelling("Es2015", "es2015"), Spelling("Es6", "es6"),
      Spelling("Es2016", "es2016"), Spelling("Es7", "es7"), Spelling("Es2017", "es2017"),
      Spelling("Es2018", "es2018"), Spelling("Es2019", "es2019"),
      Spelling("Es2020", "es2020"), Spelling("EsNext", "esnext"), Spelling("Dom", "dom"),
      Spelling("WebWorker", "webworker"), Spelling("ScriptHost", "scripthost"),
      Spelling("DomIterable", "dom.iterable"), Spelling("Es2015Core", "es2015.core"),
      Spelling("Es2015Generator", "es2015.generator"),
      Spelling("Es2015Iterable", "es2015.iterable"),
      Spelling("Es2015Promise", "es2015.promise"), Spelling("Es2015Proxy", "es2015.proxy"),
      Spelling("Es2015Reflect", "es2015.reflect"), Spelling("Es2015Symbol", "es2015.symbol"),
      Spelling("Es2015SymbolWellKnown", "es2015.symbol.wellknown"),
      Spelling("Es2016ArrayInclude", "es2016.array.include"),
      Spelling("Es2017Object", "es2017.object"), Spelling("Es2017Intl", "es2017.intl"),
      Spelling("Es2017SharedMemory", "es2017.sharedmemory"),
      Spelling("Es2017String", "es2017.string"),
      Spelling("Es2017TypedArrays", "es2017.typedarrays"),
      Spelling("Es2018Intl", "es2018.intl"), Spelling("Es2018Promise", "es2018.promise"),
      Spelling("Es2018RegExp", "es2018.regexp"), Spelling("Es2019Array", "es2019.array"),
      Spelling("Es2019Object", "es2019.object"), Spelling("Es2019String", "es2019.string"),
      Spelling("Es2019Symbol", "es2019.symbol"), Spelling("Es2020String", "es2020.string"),
      Spelling("Es2020SymbolWellknown", "es2020.symbol.wellknown"),
      Spelling("EsNextAsyncIterable", "esnext.asynciterable"),
      Spelling("EsNextArray", "esnext.array"), Spelling("EsNextIntl", "esnext.intl"),
      Spelling("EsNextSymbol", "esnext.symbol") }

EnumNames == {"Target", "Module", "Lib", "Jsx", "ModuleResolutionMode"}

Vocabulary(enum) ==
    CASE enum = "Target" -> TargetSpellings
      [] enum = "Module" -> ModuleSpellings
      [] enum = "Lib" -> LibSpellings
      [] enum = "Jsx" -> JsxSpellings
      [] enum = "ModuleResolutionMode" -> ModuleResolutionSpellings

\* The option that holds each enum, by its field name in CompilerOptions.
EnumField(enum) ==
    CASE enum = "Target" -> "target"
      [] enum = "Module" -> "module"
      [] enum = "Lib" -> "lib"
      [] enum = "Jsx" -> "jsx"
      [] enum = "ModuleResolutionMode" -> "module_resolution"

LetterCases == {"as-listed", "upper", "lower", "capitalized"}

InCase(s, case) ==
    CASE case = "as-listed" -> s
      [] case = "upper" -> MapChars(s, 1, TRUE)
      [] case = "lower" -> MapChars(s, 1, FALSE)
      [] case = "capitalized" ->
           UpperChar(Ch(s, 1)) \o SubSeq(MapChars(s, 1, FALSE), 2, Len(s))

Unrecognised == {"es1", "ES3", "bogus", ""}

EnumDocs ==
    {[fam |-> "enum", enum |-> e, keyed |-> sp, variant |-> x.variant, listed |-> x.s,
      s |-> InCase(x.s, c)] :
        e \in EnumNames, sp \in {"camel", "snake"}, x \in UNION {Vocabulary(n) : n \in EnumNames},
        c \in LetterCases}

EnumFamily == {d \in EnumDocs : Spelling(d.variant, d.listed) \in Vocabulary(d.enum)}

BadEnumFamily ==
    {[fam |-> "badenum", enum |-> e, keyed |-> sp, s |-> s] :
        e \in EnumNames, sp \in {"camel", "snake"}, s \in Unrecognised}

\* Strings that are no spelling of the enum in any letter case: the spellings of the
\* other enums, and a few more.
Lower(s) == MapChars(s, 1, FALSE)

OtherStrings == {"ES3", "es3", "Es1", "es2021", "ES 5", "es5 ", " es5", "es", "common.js"}

AllSpellings ==
    OtherStrings
    \cup {InCase(x.s, c) : x \in UNION {Vocabulary(n) : n \in EnumNames}, c \in LetterCases}

LowerVocabulary == [e \in {"Target", "Module"} |-> {Lower(y.s) : y \in Vocabulary(e)}]

ForeignFamily ==
    UNION {{[fam |-> "foreign", enum |-> e, keyed |-> "camel", s |-> s] :
                s \in {x \in AllSpellings : Lower(x) \notin LowerVocabulary[e]}} :
           e \in {"Target", "Module"}}

EnumText(d) ==
    Options(Object1(Spell(EnumField(d.enum), d.keyed),
                    IF d.enum = "Lib" THEN "[" \o Quote(d.s) \o "]" ELSE Quote(d.s)))

\* --- the two shorthand-or-structured fields ---
MaxRefs == 2

RefEntries ==
    {[path |-> p, prepend |-> q] : p \in {"../lib", "a"}, q \in {"absent", "true", "false"}}

RefLists == UNION {[1..n -> RefEntries] : n \in 0..MaxRefs}

ReferencesFamily ==
    {[fam |-> "references", form |-> "list", items |-> l, b |-> ""] : l \in RefLists}
    \cup {[fam |-> "references", form |-> "bool", items |-> <<>>, b |-> b] :
            b \in {"true", "false"}}

EntryText(e) ==
    "{" \o Member("path", Quote(e.path))
        \o (IF e.prepend = "absent" THEN "" ELSE "," \o Member("prepend", e.prepend)) \o "}"

ReferencesText(d) ==
    Object1("references",
            IF d.form = "bool" THEN d.b
            ELSE "[" \o Join([k \in 1..Len(d.items) |-> EntryText(d.items[k])], 1) \o "]")

Lists == {"absent", "[]", "[\"b\",\"a\",\"b\"]"}

TypeAcquisitionFamily ==
    {[fam |-> "typeAcquisition", form |-> "bool", enable |-> b, include |-> "absent",
      exclude |-> "absent", heuristics |-> "absent"] : b \in {"true", "false"}}
    \cup {[fam |-> "typeAcquisition", form |-> "object", enable |-> b, include |-> i,
           exclude |-> x, heuristics |-> h] :
            b \in {"true", "false"}, i \in Lists, x \in Lists,
            h \in {"absent", "true", "false"}}

Optional(key, value) == IF value = "absent" THEN "" ELSE "," \o Member(key, value)

TypeAcquisitionText(d) ==
    Object1("typeAcquisition",
            IF d.form = "bool" THEN d.enable
            ELSE "{" \o Member("enable", d.enable) \o Optional("include", d.include)
                     \o Optional("exclude", d.exclude)
                     \o Optional("disableFilenameBasedTypeAcquisition", d.heuristics) \o "}")

\* A value of another JSON shape under the key of a union field.
Shape(kind, text) == [kind |-> kind, text |-> text]

Shapes ==
    { Shape("string", "\"x\""), Shape("string", "\"Bool\""), Shape("string", "\"true\""),
      Shape("number", "0"), Shape("number", "12"), Shape("null", "null"),
      Shape("object", "{}"), Shape("object", "{\"path\":\"a\"}"),
      Shape("array", "[]"), Shape("array", "[true]"), Shape("array", "[{\"enable\":true}]") }

ShapeFamily ==
    {[fam |-> "shape", key |-> k, kind |-> sh.kind, text |-> sh.text] :
        k \in {"references", "typeAcquisition"},
        sh \in {x \in Shapes : x.kind \in {"string", "number", "null"}}}
    \cup {[fam |-> "shape", key |-> "references", kind |-> sh.kind, text |-> sh.text] :
            sh \in {x \in Shapes : x.kind = "object"}}
    \cup {[fam |-> "shape", key |-> "typeAcquisition", kind |-> sh.kind, text |-> sh.text] :
            sh \in {x \in Shapes : x.kind = "array"}}

\* --- a string-valued field, with or without a comment after the value ---
StringSamples ==
    {"//not-a-comment", "/* c */", "a//b", "/*", "#not", "src", "a,}", "x, }", "//,}",
     "/*,}*/", ",", "}"}

Comments == {"", " // c\n", " /* c */", "/*\"*/", " # c\n"}

StringFamily ==
    {[fam |-> "string", field |-> f, s |-> x, comment |-> c] :
        f \in {"extends", "files"}, x \in StringSamples, c \in Comments}

StringText(d) ==
    IF d.field = "extends" THEN Object1("extends", Quote(d.s) \o d.comment)
    ELSE Object1("files", "[" \o Quote(d.s) \o d.comment \o "]")

\* --- the path map, with or without the base URL before it ---
MaxPaths == 2

PathKeys == {"tests/*", "blah", "*"}

PathLists == {<<>>, <<"tests/*">>, <<"bloop">>, <<"b", "a", "b">>}

PathEntries == {[key |-> k, list |-> l] : k \in PathKeys, l \in PathLists}

\* Up to MaxPaths entries, no key twice.
PathMaps ==
    {m \in UNION {[1..n -> PathEntries] : n \in 0..MaxPaths} :
        \A j, k \in 1..Len(m) : j # k => m[j].key # m[k].key}

PathsFamily ==
    {[fam |-> "paths", baseUrl |-> b, entries |-> m] : b \in {"absent", "src", "."}, m \in PathMaps}

ListText(l) == "[" \o Join([k \in 1..Len(l) |-> Quote(l[k])], 1) \o "]"

PathsText(d) ==
    Options("{" \o (IF d.baseUrl = "absent" THEN ""
                    ELSE Member("baseUrl", Quote(d.baseUrl)) \o ",")
                \o Member("paths",
                          "{" \o Join([k \in 1..Len(d.entries) |->
                                         Member(d.entries[k].key, ListText(d.entries[k].list))],
                                      1) \o "}")
                \o "}")

(***************************************************************************)
(* Documents that give one field of the schema, under its external key, a  *)
(* value of a JSON kind its type does not take.                            *)
(***************************************************************************)
WrongKind(oty) ==
    LET ty == IF oty.k = "option" THEN oty.of ELSE oty IN
    CASE ty.k = "bool" -> {"\"yes\"", "5"}
      [] ty.k = "string" -> {"5", "true"}
      [] ty.k = "u32" -> {"\"x\"", "true"}
      [] ty.k \in {"vec", "hashmap", "struct"} -> {"\"x\"", "5"}
      [] ty.k = "enum" /\ ty.name \in {"References", "TypeAcquisition"} -> {"\"x\"", "5"}
      [] ty.k = "enum" /\ ty.name \notin {"References", "TypeAcquisition"} -> {"5", "true"}

FieldType(struct, f) == Schema[struct].fields[Schema[struct].pos[f]].ty

MistypedFamily ==
    UNION {UNION {{[fam |-> "mistyped", struct |-> st, field |-> f, keyed |-> sp, text |-> t] :
                      sp \in {"camel", "snake"}, t \in WrongKind(FieldType(st, f))} :
                  f \in Schema[st].names} :
           st \in {"TsConfig", "CompilerOptions"}}

MistypedText(d) ==
    IF d.struct = "TsConfig" THEN Object1(Spell(d.field, d.keyed), d.text)
    ELSE Options(Object1(Spell(d.field, d.keyed), d.text))

Docs == TailDocs \cup OptionDocs \cup BaseFamily \cup UnknownFamily \cup EnumFamily
        \cup BadEnumFamily \cup ReferencesFamily \cup TypeAcquisitionFamily \cup ShapeFamily
        \cup ForeignFamily \cup StringFamily \cup PathsFamily \cup MistypedFamily

Text(d) ==
    CASE d.fam = "tail" -> TailText(d)
      [] d.fam = "option" -> OptionText(d)
      [] d.fam = "base" -> Render(BaseDocs[d.base])
      [] d.fam = "unknown" -> UnknownText(d)
      [] d.fam \in {"enum", "badenum", "foreign"} -> EnumText(d)
      [] d.fam = "references" -> ReferencesText(d)
      [] d.fam = "typeAcquisition" -> TypeAcquisitionText(d)
      [] d.fam = "shape" -> Object1(d.key, d.text)
      [] d.fam = "string" -> StringText(d)
      [] d.fam = "paths" -> PathsText(d)
      [] d.fam = "mistyped" -> MistypedText(d)

(***************************************************************************)
(* parse_str (lib.rs 8-15), one action per statement.                      *)
(***************************************************************************)
NoReader == [text |-> "", err |-> FALSE]

NoResult == [ok |-> FALSE, e |-> [kind |-> "", unexpected |-> "", expected |-> ""]]

Init ==
    /\ doc \in Docs
    /\ input = Text(doc)
    /\ json = input
    /\ stripped = NoReader
    /\ result = NoResult
    /\ pc = "regex"

\* lib.rs 10-11
RemoveTrailingCommas ==
    /\ pc = "regex"
    /\ json' = replace_all(json)
    /\ pc' = "strip"
    /\ UNCHANGED <<doc, input, stripped, result>>

\* lib.rs 12
Strip ==
    /\ pc = "strip"
    /\ stripped' = StripComments(json)
    /\ pc' = "decode"
    /\ UNCHANGED <<doc, input, json, result>>

\* lib.rs 13-14
Decode ==
    /\ pc = "decode"
    /\ result' = from_reader(stripped)
    /\ pc' = "done"
    /\ UNCHANGED <<doc, input, json, stripped>>

Next == RemoveTrailingCommas \/ Strip \/ Decode

Spec == Init /\ [][Next]_vars

(***************************************************************************)
(* Properties                                                              *)
(***************************************************************************)
Done == pc = "done"

RECURSIVE Count(_, _)
Count(c, w) == IF w = "" THEN 0 ELSE (IF Head(w) = c THEN 1 ELSE 0) + Count(c, Tail(w))

OnlyChars(w, chars) == \A k \in 1..Len(w) : Ch(w, k) \in chars

\* Comment stripping first, trailing-comma removal second, then the decode.
StripFirst(t) ==
    LET rd == StripComments(t) IN from_reader([text |-> replace_all(rd.text), err |-> rd.err])

\* C4: comment stripping runs before trailing-comma removal, so the comma pass sees
\* comment-free text only: the result of parse_str is the result of stripping the
\* comments first and removing the trailing commas from what is left, and a comma
\* separated from the closing brace by whitespace and comments only is removed.
C4_CommentsStrippedFirst ==
    Done => /\ result.ok = StripFirst(input).ok
            /\ result.ok => result.v = StripFirst(input).v

\* C5: in a comment-free document, a comma followed by whitespace and '}' is
\* removed at every object depth, so a member list followed by blanks and commas
\* parses exactly when it holds at most one comma; before ']' no comma is removed,
\* so an element list followed by any comma fails.
C5_NarrowTrailingComma ==
    (Done /\ doc.fam = "tail" /\ OnlyChars(doc.w, {",", " ", "\n"})) =>
        IF doc.shape = "array" THEN result.ok <=> Count(",", doc.w) = 0
        ELSE result.ok <=> Count(",", doc.w) <= 1

C5_Witness ==
    /\ Done
    /\ doc.fam = "tail" /\ doc.shape = "nested" /\ doc.w = ",\n"
    /\ json = "{\"compilerOptions\":{\"a\":{\"b\":1\n}\n}\n}"
    /\ result.ok

\* The option f of a parsed document.
Opt(f) == result.v.compiler_options.v[f]

\* C1: every option is recognised under the camel-case rendering of its name: a
\* document that gives option f a value of its type under that key parses and field
\* f holds the value; under another spelling of the key the field is not set.
C1_CamelCaseKeys ==
    (Done /\ doc.fam = "option") =>
        IF doc.spelling = "camel"
        THEN /\ result.ok
             /\ result.v.compiler_options.some
             /\ Opt(doc.field).some
             /\ Opt(doc.field).v = OptionSample(doc).value
        ELSE Spell(doc.field, doc.spelling) # CamelCase(doc.field) =>
                (result.ok => ~Opt(doc.field).some)

\* C2: a document that parses still parses, to the same result, with one more key
\* that names no field, whatever its value, at the top level or in compilerOptions.
C2_UnknownFieldIgnored ==
    (Done /\ doc.fam = "unknown" /\ parse_str(Render(BaseDocs[doc.base])).ok) =>
        result = parse_str(Render(BaseDocs[doc.base]))

C2_Witness ==
    /\ Done /\ doc.fam = "unknown" /\ doc.base = 4 /\ doc.where = "options"
    /\ doc.key = "STRICT" /\ doc.value = "{\"files\":\",}\"}"
    /\ result.ok
    /\ Opt("strict") = Some(TRUE)
    /\ result.v.extends = Some("b")

\* C3: enum values are matched without regard to letter case: "react-jsx" is the
\* React-JSX variant, and a spelling that is accepted as listed is accepted, with the
\* same result, in upper case, in lower case and capitalized.
C3_EnumCaseInsensitive ==
    (Done /\ doc.fam = "enum" /\ doc.keyed = "camel") =>
        /\ (doc.enum = "Jsx" /\ doc.s = "react-jsx") =>
               (result.ok /\ Opt("jsx").some /\ Opt("jsx").v = "ReactJsx")
        /\ parse_str(EnumText([doc EXCEPT !.s = doc.listed])).ok =>
               result = parse_str(EnumText([doc EXCEPT !.s = doc.listed]))

\* C9: every library variant is decoded from its own spelling (its level, or its
\* level and facility, dotted), in any letter case.
C9_LibrarySpellings ==
    (Done /\ doc.fam = "enum" /\ doc.enum = "Lib" /\ doc.keyed = "camel") =>
        /\ result.ok
        /\ Opt("lib").some
        /\ Opt("lib").v = <<doc.variant>>

\* The value the document of the "references" family describes for one entry.
ExpectedEntry(e) ==
    [path |-> e.path, prepend |-> IF e.prepend = "absent" THEN None ELSE Some(e.prepend = "true")]

\* The value the document of the "typeAcquisition" family gives an optional list.
ExpectedList(l) ==
    CASE l = "absent" -> None
      [] l = "[]" -> Some(<<>>)
      [] l = "[\"b\",\"a\",\"b\"]" -> Some(<<"b", "a", "b">>)

ExpectedSwitch(h) == IF h = "absent" THEN None ELSE Some(h = "true")

\* C6: typeAcquisition is decoded by the shape of its value: a boolean is the
\* shorthand, an object with "enable" and the optional lists and heuristic switch is
\* the structured form.
C6_TypeAcquisitionByShape ==
    (Done /\ doc.fam = "typeAcquisition") =>
        /\ result.ok
        /\ result.v.type_acquisition.some
        /\ IF doc.form = "bool"
           THEN /\ result.v.type_acquisition.v.variant = "Bool"
                /\ result.v.type_acquisition.v.v = (doc.enable = "true")
           ELSE /\ result.v.type_acquisition.v.variant = "Object"
                /\ result.v.type_acquisition.v.v.enable = (doc.enable = "true")
                /\ result.v.type_acquisition.v.v.include = ExpectedList(doc.include)
                /\ result.v.type_acquisition.v.v.exclude = ExpectedList(doc.exclude)
                /\ result.v.type_acquisition.v.v.disable_filename_based_type_acquisition =
                       ExpectedSwitch(doc.heuristics)

\* C7: references is decoded by the shape of its value: a boolean is the shorthand,
\* an array is the list of its entries in order, each with its path and its prepend
\* flag where given.
C7_ReferencesByShape ==
    (Done /\ doc.fam = "references") =>
        /\ result.ok
        /\ result.v.references.some
        /\ IF doc.form = "bool"
           THEN /\ result.v.references.v.variant = "Bool"
                /\ result.v.references.v.v = (doc.b = "true")
           ELSE /\ result.v.references.v.variant = "References"
                /\ result.v.references.v.v =
                       [k \in 1..Len(doc.items) |-> ExpectedEntry(doc.items[k])]

C7_Witness ==
    /\ Done /\ doc.fam = "references" /\ doc.form = "list"
    /\ Len(doc.items) = 2
    /\ doc.items[1].prepend = "absent" /\ doc.items[2].prepend = "false"
    /\ doc.items[1].path = "../lib"
    /\ result.ok
    /\ result.v.references.v.v[1] = [path |-> "../lib", prepend |-> None]
    /\ result.v.references.v.v[2].prepend = Some(FALSE)

\* The union field the document of the "shape" family sets.
ShapeField == IF doc.key = "references" THEN result.v.references ELSE result.v.type_acquisition

C10_UnrecognisedEnumFatal ==
    (Done /\ doc.fam = "badenum" /\ doc.keyed = "camel") => ~result.ok

\* C11: the error for an unrecognised value of target, module or lib carries the
\* string as the document wrote it, character for character.
C11_ErrorCarriesRawInput ==
    (Done /\ doc.fam = "badenum" /\ doc.enum \in {"Target", "Module", "Lib"}) =>
        /\ ~result.ok
        /\ result.e.kind = "invalid_value"
        /\ result.e.unexpected = doc.s

\* What the enum's own decoder makes of the string s.
FromStr(enum, s) == IF enum = "Target" THEN TargetFromStr(s) ELSE ModuleFromStr(s)

\* C12: target and module accept exactly their listed spellings, in any letter
\* case; each decodes to the variant of its name, no other listed spelling decodes
\* to that variant, and every other string ("ES3" too) is rejected.
C12_TargetModuleVocabulary ==
    (Done /\ doc.fam \in {"enum", "badenum", "foreign"} /\ doc.enum \in {"Target", "Module"}) =>
        /\ doc.fam = "enum" =>
             /\ result.ok
             /\ Opt(EnumField(doc.enum)) = Some(doc.variant)
             /\ \A y \in Vocabulary(doc.enum) :
                    y.s # doc.listed => FromStr(doc.enum, y.s) # [ok |-> TRUE, v |-> doc.variant]
        /\ doc.fam \in {"badenum", "foreign"} => ~result.ok

C12_Witness ==
    /\ Done /\ doc.fam = "enum" /\ doc.enum = "Module" /\ doc.s = "COMMONJS"
    /\ result.ok
    /\ Opt("module") = Some("CommonJs")

Contains(s, sub) ==
    \E i \in 1..(Len(s) - Len(sub) + 1) : SubSeq(s, i, i + Len(sub) - 1) = sub

\* The string the document of the "string" family gives its field, as decoded.
StringValue ==
    IF doc.field = "extends" THEN result.v.extends = Some(doc.s)
    ELSE result.v.files = Some(<<doc.s>>)

\* C13: a string value that contains comment-like text ("//", "/*") decodes to
\* exactly that string, and a comment outside the literal is removed.
C13_CommentTextInStringsKept ==
    (Done /\ doc.fam = "string" /\ (Contains(doc.s, "//") \/ Contains(doc.s, "/*"))) =>
        result.ok /\ StringValue

\* C17: the trailing-comma pass leaves the contents of a string literal alone: the
\* field holds the string as written, character for character.
C17_StringsKeptByCommaPass ==
    (Done /\ doc.fam = "string" /\ doc.comment = "") => result.ok /\ StringValue

\* C14: "{}" parses with every field unspecified, {"compilerOptions":{}} with the
\* options block present and every option unspecified; a field is unspecified
\* exactly when its key is absent: an option given a value (an empty list and
\* false too) is the one option that is specified.
C14_AbsentMeansUnspecified ==
    /\ (Done /\ doc.fam = "base" /\ doc.base \in {1, 2}) =>
           /\ result.ok
           /\ \A f \in Schema["TsConfig"].names \ {"compiler_options"} : ~result.v[f].some
           /\ result.v.compiler_options.some <=> doc.base = 2
           /\ doc.base = 2 => \A f \in Schema["CompilerOptions"].names : ~Opt(f).some
    /\ (Done /\ doc.fam = "option" /\ doc.spelling = "camel") =>
           /\ result.ok
           /\ \A f \in Schema["TsConfig"].names \ {"compiler_options"} : ~result.v[f].some
           /\ result.v.compiler_options.some
           /\ \A f \in Schema["CompilerOptions"].names : Opt(f).some <=> f = doc.field

\* C15: a document whose compilerOptions holds "baseUrl" and a paths object parses,
\* and the mapping sends each key of paths to the strings given for it, in order
\* and with duplicates kept, and holds no other key.
C15_PathMap ==
    (Done /\ doc.fam = "paths") =>
        /\ result.ok
        /\ Opt("paths") =
              Some({<<doc.entries[k].key, doc.entries[k].list>> : k \in 1..Len(doc.entries)})

C15_Witness ==
    /\ Done /\ doc.fam = "paths" /\ doc.baseUrl = "src"
    /\ input = "{\"compilerOptions\":{\"baseUrl\":\"src\","
                 \o "\"paths\":{\"tests/*\":[\"tests/*\"],\"blah\":[\"b\",\"a\",\"b\"]}}}"
    /\ result.ok
    /\ Opt("paths").v = {<<"tests/*", <<"tests/*">>>>, <<"blah", <<"b", "a", "b">>>>}

\* C18: the base URL a document gives as a string is held by the options block:
\* the document parses and the base-URL option is specified and equal to the string.
C18_BaseUrlString ==
    (Done /\ doc.fam = "paths" /\ doc.baseUrl # "absent") =>
        /\ result.ok
        /\ Opt("base_url").some
        /\ Opt("base_url").v = doc.baseUrl

\* C16: a document that gives a field of the schema, under its external
\* (camelCase) key, a value of the wrong JSON kind makes parse_str return an
\* error, and an error result carries no document.
C16_TypeMismatchFatal ==
    (Done /\ doc.fam = "mistyped" /\ doc.keyed = "camel") =>
        /\ ~result.ok
        /\ DOMAIN result = {"ok", "e"}

=============================================================================
